---- MODULE Spec2Model ----
(***************************************************************************)
(* terse: a URL shortener.  HTTP handlers (internal/api/handlers.go) over  *)
(* a DynamoDB table (internal/db/crud.go).  Every request runs in its own  *)
(* goroutine; the only shared state is the table.  A step of the model is  *)
(* one backend call of one request together with the handler code around   *)
(* it.  Strings are sequences of tokens; the empty string is << >>.        *)
(***************************************************************************)
EXTENDS Integers, Sequences, FiniteSets

(* ---------------- bounds ---------------- *)
\* total number of requests served in a run
MaxReqs == 4
\* number of Redirect requests that may be in flight at once
MaxInflight == 2

(* ---------------- strings ---------------- *)
EmptyStr == << >>

\* handlers.go:25
alphanumeric ==
  { "a","b","c","d","e","f","g","h","i","j","k","l","m","n","o","p","q","r","s",
    "t","u","v","w","x","y","z","A","B","C","D","E","F","G","H","I","J","K","L",
    "M","N","O","P","Q","R","S","T","U","V","W","X","Y","Z","0","1","2","3","4",
    "5","6","7","8","9" }

\* length the key pattern demands (handlers.go:23)
PatternLen == 16
\* length of a generated key (handlers.go:119)
KeyLen == 16

\* a pattern that checks the length only
keyPatternLengthOnly(key) == Len(key) = PatternLen

\* keyPattern.MatchString(key), ^[a-zA-Z0-9]{16}$
keyPattern(key) ==
  /\ Len(key) = PatternLen
  /\ \A i \in 1..Len(key) : key[i] \in alphanumeric

Fill(c, n) == [i \in 1..n |-> c]

\* characters generateKey draws in the model (a subset of alphanumeric)
GenChars == {"a", "Z"}
\* generateKey(): 16 characters of the alphabet; the error return (the
\* random source failed) leaves the key empty
GenKeys == { Fill(c, KeyLen) : c \in GenChars }
generateKey == GenKeys \cup {EmptyStr}

\* path keys requests carry: the generated ones, one too short, one with a
\* character outside the alphabet
ShortKey == Fill("a", 15)
DashKey == [i \in 1..16 |-> IF i = 16 THEN "-" ELSE "a"]
ReqKeys == GenKeys \cup {ShortKey, DashKey}

(* ---------------- URLs ---------------- *)
\* a URL is a sequence of tokens; NonASCII is the rune U+00E9 (bytes C3 A9)
NonASCII == "U+00E9"
SchemeTokens == {"http", "https", "HTTP", "ftp", "x.com", "page", "not-a-url"}

UrlPage == <<"https", ":", "/", "/", "x.com", "/", "page">>
UrlUpper == <<"HTTP", ":", "/", "/", "x.com">>
UrlAccent == <<"http", ":", "/", "/", "x.com", "/", NonASCII>>
ValidUrls == {UrlPage, UrlUpper, UrlAccent}
InvalidUrls ==
  { EmptyStr,
    <<"not-a-url">>,
    <<"ftp", ":", "/", "/", "x.com">>,
    <<"http", ":", "/", "/">>,
    <<"http", ":", "x.com">>,
    <<"/", "page">>,
    <<":", "/", "/", "x.com">> }
Urls == ValidUrls \cup InvalidUrls

ToLower(t) == IF t = "HTTP" THEN "http" ELSE t

ParseError == [err |-> TRUE, Scheme |-> EmptyStr, Host |-> EmptyStr]

\* index of the first token that is not a scheme character run, or Len+1
RECURSIVE SchemeEnd(_, _)
SchemeEnd(raw, i) ==
  IF i > Len(raw) THEN i
  ELSE IF raw[i] \in SchemeTokens THEN SchemeEnd(raw, i + 1)
  ELSE i

Drop(s, n) == SubSeq(s, n + 1, Len(s))
HasPrefix(s, p) == Len(s) >= Len(p) /\ SubSeq(s, 1, Len(p)) = p

\* index of the first "/" of s, or 0
RECURSIVE IndexSlash(_, _)
IndexSlash(s, i) ==
  IF i > Len(s) THEN 0
  ELSE IF s[i] = "/" THEN i
  ELSE IndexSlash(s, i + 1)

\* url.ParseRequestURI(rawURL): scheme up to the first ":", lowercased; a
\* rest not starting with "/" is opaque when there is a scheme and an error
\* otherwise; after a scheme, "//" starts the authority, up to the next "/"
ParseRequestURI(raw) ==
  LET e == SchemeEnd(raw, 1)
      colon == e <= Len(raw) /\ raw[e] = ":"
      scheme == IF colon THEN [i \in 1..(e - 1) |-> ToLower(raw[i])] ELSE EmptyStr
      rest == IF colon THEN Drop(raw, e) ELSE raw
      auth == Drop(rest, 2)
      cut == IndexSlash(auth, 1)
  IN  IF raw = EmptyStr THEN ParseError
      ELSE IF colon /\ e = 1 THEN ParseError
      ELSE IF ~HasPrefix(rest, <<"/">>)
        THEN IF scheme # EmptyStr
               THEN [err |-> FALSE, Scheme |-> scheme, Host |-> EmptyStr]
               ELSE ParseError
      ELSE IF scheme # EmptyStr /\ HasPrefix(rest, <<"/", "/">>)
        THEN [err |-> FALSE, Scheme |-> scheme,
              Host |-> IF cut = 0 THEN auth ELSE SubSeq(auth, 1, cut - 1)]
      ELSE [err |-> FALSE, Scheme |-> scheme, Host |-> EmptyStr]

\* CreateShortURLRequest.Bind: TRUE when it returns an error
Bind(url) ==
  LET parsedURL == ParseRequestURI(url)
  IN  \/ url = EmptyStr
      \/ parsedURL.err
      \/ (parsedURL.Scheme # <<"http">> /\ parsedURL.Scheme # <<"https">>)
      \/ parsedURL.Host = EmptyStr

\* http.Redirect sets Location to hexEscapeNonASCII(url): every byte outside
\* ASCII becomes %XX
hexEscapeNonASCII(url) ==
  [i \in 1..Len(url) |-> IF url[i] = NonASCII THEN "%C3%A9" ELSE url[i]]

(* ---------------- HTTP status codes ---------------- *)
StatusOK == 200
StatusCreated == 201
StatusFound == 302
StatusBadRequest == 400
StatusNotFound == 404
StatusInternalServerError == 500

(* ---------------- the table ---------------- *)
\* The table maps an id to an item; an item is a record of attributes
\* (URLItem, db.go:27-32).  created_at is written once and never read.
VARIABLES
  store,      \* the DynamoDB table: [ids present -> item]
  inflight,   \* Redirect requests between their backend calls
  resp,       \* the response written last
  nreq,       \* requests started so far
  putUrl,     \* history: per key, the URL of the last successful Put not deleted since
  delDone,    \* history: per key, a DeleteRedirect answered 200 and no Put stored it since
  life,       \* history: per key, "never" created, "live" (created once, not deleted or overwritten), "dirty"
  incs        \* history: per key, Redirects that found a record and whose increment succeeded

vars == <<store, inflight, resp, nreq, putUrl, delDone, life, incs>>
hist == <<putUrl, delDone, life, incs>>

\* an item with the key where the URL belongs
NewItemSwapped(key, value) ==
  [id |-> key, redirect_url |-> key, access_count |-> 0]

\* the item Put writes (crud.go:75-80)
NewItem(key, value) ==
  [id |-> key, redirect_url |-> value, access_count |-> 0]

\* DynamoDB PutItem: replaces the whole item with that id
PutItem(s, item) ==
  [j \in DOMAIN s \cup {item.id} |-> IF j = item.id THEN item ELSE s[j]]

\* a delete that misses the item
DeleteItemMissed(s, key) == s

\* DynamoDB DeleteItem: removes the item if present
DeleteItem(s, key) == [j \in DOMAIN s \ {key} |-> s[j]]

\* an update that sets the counter (SET access_count = 1) instead of adding
UpdateItemSet(s, key) ==
  IF key \in DOMAIN s
    THEN [s EXCEPT ![key] = [@ EXCEPT !.access_count = 1]]
    ELSE PutItem(s, [id |-> key, access_count |-> 1])

\* DynamoDB UpdateItem with "ADD access_count 1" and no condition: adds to
\* the attribute, and creates the item (id and access_count only) when no
\* item has that id
UpdateItem(s, key) ==
  IF key \in DOMAIN s
    THEN [s EXCEPT ![key] = [@ EXCEPT !.access_count = @ + 1]]
    ELSE PutItem(s, [id |-> key, access_count |-> 1])

\* attributevalue.UnmarshalMap into URLItem: a missing attribute leaves the
\* field at its zero value
UnmarshalMap(item) ==
  [ID |-> item.id,
   RedirectURL |-> IF "redirect_url" \in DOMAIN item THEN item.redirect_url ELSE EmptyStr,
   AccessCount |-> item.access_count]

\* store.UrlObject built from a URLItem (crud.go:66-70, 137-141)
UrlObject(item) ==
  [Key |-> item.ID, URL |-> item.RedirectURL, RedirectCount |-> item.AccessCount]

\* the zero UrlObject Get returns when there is no item (crud.go:31-33)
EmptyUrlObject == [Key |-> EmptyStr, URL |-> EmptyStr, RedirectCount |-> 0]

(* ---------------- requests and responses ---------------- *)
Slots == 1..MaxInflight

Idle == [pc |-> "idle", key |-> EmptyStr, item |-> EmptyUrlObject,
         expect |-> EmptyStr, afterDel |-> FALSE]

\* the JSON value null; an array is [null |-> FALSE, array |-> its elements]
JSONNull == [null |-> TRUE, array |-> << >>]

\* a response: what the handler wrote (status, location, shortURL, urls) and,
\* as history, the request (op, key, url), the key it generated, the backend
\* calls it made, whether a call returned an error to it (err), whether its
\* read or delete met an item (found), whether its increment succeeded
\* (incOk), the URL its read was due (expect), whether it began after a
\* finished delete (afterDel), the table before a delete (before)
Response(op) ==
  [op |-> op, key |-> EmptyStr, url |-> EmptyStr, status |-> 0,
   location |-> EmptyStr, shortURL |-> EmptyStr, urls |-> JSONNull,
   genKey |-> EmptyStr, calls |-> << >>,
   err |-> FALSE, found |-> FALSE, incOk |-> FALSE,
   expect |-> EmptyStr, afterDel |-> FALSE, before |-> << >>]

Init ==
  /\ store = << >>
  /\ inflight = [s \in Slots |-> Idle]
  /\ resp = Response("none")
  /\ nreq = 0
  /\ putUrl = [k \in ReqKeys |-> EmptyStr]
  /\ delDone = [k \in ReqKeys |-> FALSE]
  /\ life = [k \in ReqKeys |-> "never"]
  /\ incs = [k \in ReqKeys |-> 0]

\* a handler that redirects without the empty-URL check
RedirectResponseUnchecked(value) ==
  [status |-> StatusFound, location |-> hexEscapeNonASCII(value.URL)]

\* UserHandler.Redirect after Get returned value without error
\* (handlers.go:75-80)
RedirectResponse(value) ==
  IF value.URL = EmptyStr
    THEN [status |-> StatusNotFound, location |-> EmptyStr]
    ELSE [status |-> StatusFound, location |-> hexEscapeNonASCII(value.URL)]

\* GET /g/{key}: the key check; a request with a bad key ends here
RedirectBegin(s, key) ==
  /\ nreq < MaxReqs
  /\ inflight[s].pc = "idle"
  /\ \A t \in Slots : t < s => inflight[t].pc # "idle"
  /\ nreq' = nreq + 1
  /\ IF ~keyPattern(key)
       THEN /\ resp' = [Response("Redirect") EXCEPT !.key = key,
                                                   !.status = StatusBadRequest]
            /\ UNCHANGED inflight
       ELSE /\ inflight' = [inflight EXCEPT ![s] =
                 [Idle EXCEPT !.pc = "get", !.key = key, !.afterDel = delDone[key]]]
            /\ UNCHANGED resp
  /\ UNCHANGED <<store, hist>>

\* Client.Get up to the UpdateItem call: GetItem, the nil check, the unmarshal
RedirectGet(s) ==
  LET r == inflight[s]
      base == [Response("Redirect") EXCEPT !.key = r.key, !.calls = <<"GetItem">>,
                                           !.afterDel = r.afterDel,
                                           !.expect = putUrl[r.key]]
  IN
  /\ r.pc = "get"
  /\ \E ok \in BOOLEAN :
       IF ~ok
         THEN /\ resp' = [base EXCEPT !.status = StatusInternalServerError, !.err = TRUE]
              /\ inflight' = [inflight EXCEPT ![s] = Idle]
       ELSE IF r.key \notin DOMAIN store
         THEN /\ resp' = [base EXCEPT
                            !.status = RedirectResponse(EmptyUrlObject).status,
                            !.location = RedirectResponse(EmptyUrlObject).location]
              /\ inflight' = [inflight EXCEPT ![s] = Idle]
       ELSE /\ inflight' = [inflight EXCEPT ![s] =
                  [r EXCEPT !.pc = "update",
                            !.item = UrlObject(UnmarshalMap(store[r.key])),
                            !.expect = putUrl[r.key]]]
            /\ UNCHANGED resp
  /\ UNCHANGED <<store, nreq, hist>>

\* Client.Get from the UpdateItem call on, and the handler's answer: a
\* failed increment is swallowed
RedirectUpdate(s) ==
  LET r == inflight[s]
      out == RedirectResponse(r.item)
  IN
  /\ r.pc = "update"
  /\ \E ok \in BOOLEAN :
       /\ store' = IF ok THEN UpdateItem(store, r.key) ELSE store
       /\ incs' = IF ok THEN [incs EXCEPT ![r.key] = @ + 1] ELSE incs
       /\ resp' = [Response("Redirect") EXCEPT
                     !.key = r.key, !.calls = <<"GetItem", "UpdateItem">>,
                     !.status = out.status, !.location = out.location,
                     !.expect = r.expect, !.afterDel = r.afterDel,
                     !.found = TRUE, !.incOk = ok]
  /\ inflight' = [inflight EXCEPT ![s] = Idle]
  /\ UNCHANGED <<nreq, putUrl, delDone, life>>

\* the host of the request, for the short URL
Host == "host"
ShortURL(key) == <<Host, "/g/">> \o key

\* POST /manage/: Bind (an error goes to handleError), generateKey (its
\* error dropped), Put.  PutItem rejects an empty id, so the key of a failed
\* generateKey is never stored.  A stored key clears afterDel of the
\* Redirects in flight on it: they no longer follow a delete.
CreateRedirect(url) ==
  /\ nreq < MaxReqs
  /\ nreq' = nreq + 1
  /\ IF Bind(url)
       THEN /\ resp' = [Response("CreateRedirect") EXCEPT
                          !.url = url, !.status = StatusInternalServerError]
            /\ UNCHANGED <<store, inflight, hist>>
       ELSE \E key \in generateKey, ok \in BOOLEAN :
              LET base == [Response("CreateRedirect") EXCEPT
                             !.url = url, !.genKey = key, !.calls = <<"PutItem">>]
              IN  IF ok /\ key # EmptyStr
                    THEN /\ store' = PutItem(store, NewItem(key, url))
                         /\ resp' = [base EXCEPT !.status = StatusCreated,
                                                 !.shortURL = ShortURL(key)]
                         /\ putUrl' = [putUrl EXCEPT
                                         ![Drop(resp'.shortURL, 2)] = url]
                         /\ delDone' = [delDone EXCEPT ![key] = FALSE]
                         /\ life' = [life EXCEPT ![key] =
                                       IF @ = "never" THEN "live" ELSE "dirty"]
                         /\ inflight' = [s \in Slots |->
                                IF inflight[s].key = key
                                  THEN [inflight[s] EXCEPT !.afterDel = FALSE]
                                  ELSE inflight[s]]
                         /\ UNCHANGED incs
                    ELSE /\ resp' = [base EXCEPT
                                       !.status = StatusInternalServerError,
                                       !.err = TRUE]
                         /\ UNCHANGED <<store, inflight, hist>>

\* DELETE /manage/{key}: no key check
DeleteRedirect(key) ==
  /\ nreq < MaxReqs
  /\ nreq' = nreq + 1
  /\ \E ok \in BOOLEAN :
       LET base == [Response("DeleteRedirect") EXCEPT
                      !.key = key, !.calls = <<"DeleteItem">>,
                      !.found = key \in DOMAIN store, !.before = store]
       IN  IF ok
             THEN /\ store' = DeleteItem(store, key)
                  /\ resp' = [base EXCEPT !.status = StatusOK]
                  /\ putUrl' = [putUrl EXCEPT ![key] = EmptyStr]
                  /\ delDone' = [delDone EXCEPT ![key] = TRUE]
                  /\ life' = [life EXCEPT ![key] =
                                IF @ = "never" THEN "never" ELSE "dirty"]
                  /\ UNCHANGED <<inflight, incs>>
             ELSE /\ resp' = [base EXCEPT !.status = StatusInternalServerError,
                                          !.err = TRUE]
                  /\ UNCHANGED <<store, inflight, hist>>

\* every order a Scan may return the items in
Orders(S) ==
  { f \in [1..Cardinality(S) -> S] : \A i, j \in 1..Cardinality(S) : f[i] = f[j] => i = j }

\* Client.List after a successful Scan: a non-nil slice of UrlObjects
List(items) == [i \in 1..Len(items) |-> UrlObject(UnmarshalMap(items[i]))]

\* a Go slice: nil, or a sequence of elements
NilSlice == [nil |-> TRUE, elems |-> << >>]
\* Go's append onto a slice that may be nil: the result is never nil
GoAppend(slice, x) == [nil |-> FALSE, elems |-> Append(slice.elems, x)]

\* the loop of ListRedirects over data, starting from response.URLs
RECURSIVE AppendAll(_, _, _)
AppendAll(slice, data, i) ==
  IF i > Len(data) THEN slice
  ELSE AppendAll(GoAppend(slice,
                   [key |-> data[i].Key, url |-> data[i].URL,
                    redirect_count |-> data[i].RedirectCount]),
                 data, i + 1)

\* RedirectURLListResponse{}.URLs, then the loop (handlers.go:170-178)
ListURLs(data) == AppendAll(NilSlice, data, 1)

\* encoding/json of a slice: a nil slice is null, any other an array
JSONArray(slice) ==
  IF slice.nil THEN JSONNull ELSE [null |-> FALSE, array |-> slice.elems]

\* GET /manage/
ListRedirects ==
  /\ nreq < MaxReqs
  /\ nreq' = nreq + 1
  /\ \E ok \in BOOLEAN :
       LET base == [Response("ListRedirects") EXCEPT !.calls = <<"Scan">>]
       IN  IF ok
             THEN \E order \in Orders(DOMAIN store) :
                    LET items == [i \in 1..Len(order) |-> store[order[i]]]
                    IN  resp' = [base EXCEPT !.status = StatusOK,
                                  !.urls = JSONArray(ListURLs(List(items)))]
             ELSE resp' = [base EXCEPT !.status = StatusInternalServerError,
                                       !.err = TRUE]
  /\ UNCHANGED <<store, inflight, hist>>

Next ==
  \/ \E s \in Slots, key \in ReqKeys : RedirectBegin(s, key)
  \/ \E s \in Slots : RedirectGet(s)
  \/ \E s \in Slots : RedirectUpdate(s)
  \/ \E url \in Urls : CreateRedirect(url)
  \/ \E key \in ReqKeys : DeleteRedirect(key)
  \/ ListRedirects

Spec == Init /\ [][Next]_vars

(* ---------------- properties ---------------- *)
BadKeys == {ShortKey, DashKey}
HasUrl(item) == "redirect_url" \in DOMAIN item

\* C1 as stated: a Redirect(k) whose read succeeds while k holds the record a
\* CreateRedirect(u) stored (201, not deleted or re-created since) answers
\* 302 with Location equal to u.
C1_LocationIsUrl ==
  (resp.op = "Redirect" /\ ~resp.err /\ resp.expect # EmptyStr)
    => (resp.status = StatusFound /\ resp.location = resp.expect)

\* C1 amended: the same request answers 302 with Location equal to u with
\* every non-ASCII byte percent-encoded, hence equal to u when u is ASCII.
C1_LocationIsEscapedUrl ==
  (resp.op = "Redirect" /\ ~resp.err /\ resp.expect # EmptyStr)
    => /\ resp.status = StatusFound
       /\ Len(resp.location) = Len(resp.expect)
       /\ \A i \in 1..Len(resp.expect) :
            resp.location[i] =
              IF resp.expect[i] = NonASCII THEN "%C3%A9" ELSE resp.expect[i]

C1_Witness ==
  /\ resp.op = "Redirect" /\ ~resp.err
  /\ resp.expect = UrlPage
  /\ resp.status = StatusFound /\ resp.location = UrlPage

\* C2: a CreateRedirect whose url is empty, not an absolute URI, not http or
\* https, or without a host answers 400, generates no key and calls no Put.
C2_InvalidUrlIs400 ==
  (resp.op = "CreateRedirect" /\ resp.url \in InvalidUrls)
    => /\ resp.status = StatusBadRequest
       /\ resp.genKey = EmptyStr
       /\ resp.calls = << >>

\* C3: a Redirect on a key outside the pattern answers 400 and makes no
\* backend call; on a key inside the pattern with no stored record (the read
\* succeeding) it answers 404.
C3_BadKey400UnknownKey404 ==
  resp.op = "Redirect" =>
    /\ resp.key \in BadKeys => (resp.status = StatusBadRequest /\ resp.calls = << >>)
    /\ (resp.key \notin BadKeys /\ ~resp.err /\ ~resp.found)
         => resp.status = StatusNotFound

C3_Witness ==
  /\ resp.op = "Redirect" /\ resp.key = DashKey
  /\ resp.status = StatusBadRequest /\ resp.calls = << >>

\* C4: for a key created once and neither deleted nor overwritten, the
\* stored counter, and the redirect_count ListRedirects reports, equal the
\* number of Redirects that found the record and whose increment succeeded;
\* a Redirect whose increment failed still answers 302.
C4_CountIsSuccessfulIncrements ==
  /\ \A k \in GenKeys : life[k] = "live" =>
       (k \in DOMAIN store /\ store[k].access_count = incs[k])
  /\ (resp.op = "ListRedirects" /\ resp.status = StatusOK) =>
       \A i \in 1..Len(resp.urls.array) :
         life[resp.urls.array[i].key] = "live" =>
           resp.urls.array[i].redirect_count = incs[resp.urls.array[i].key]
  /\ (resp.op = "Redirect" /\ resp.found /\ ~resp.incOk /\ resp.expect # EmptyStr)
       => resp.status = StatusFound

C4_Witness ==
  /\ resp.op = "ListRedirects" /\ resp.status = StatusOK
  /\ \E i \in 1..Len(resp.urls.array) :
       /\ life[resp.urls.array[i].key] = "live"
       /\ resp.urls.array[i].redirect_count = 2

\* C5: ListRedirects over an empty table answers 200 with urls an empty
\* array, not null.
C5_EmptyListIsEmptyArray ==
  (resp.op = "ListRedirects" /\ ~resp.err /\ DOMAIN store = {})
    => (resp.status = StatusOK /\ resp.urls = [null |-> FALSE, array |-> << >>])

\* C6: while the record of a key exists its target URL never changes, also
\* across a CreateRedirect that generates the same key.
C6_TargetUrlNeverChanges ==
  [][\A k \in GenKeys :
       (k \in DOMAIN store /\ k \in DOMAIN store' /\ HasUrl(store[k]))
         => (HasUrl(store'[k]) /\ store'[k].redirect_url = store[k].redirect_url)]_vars

\* C7: a Redirect(k) that begins after a DeleteRedirect(k) answered 200, with
\* no CreateRedirect storing k since, answers 404 when its read succeeds.
C7_NotFoundAfterDelete ==
  (resp.op = "Redirect" /\ resp.afterDel /\ ~resp.err)
    => resp.status = StatusNotFound

\* the request met an item: one an in-flight Redirect left behind the delete
C7_Witness ==
  /\ resp.op = "Redirect" /\ resp.afterDel /\ ~resp.err /\ resp.found
  /\ resp.status = StatusNotFound

\* C8: a DeleteRedirect whose backend call succeeds answers 200; on a key
\* without a record it leaves the table as it was; the table after it has
\* every other record unchanged and deleting the key again changes nothing.
C8_DeleteIdempotent ==
  (resp.op = "DeleteRedirect" /\ ~resp.err) =>
    /\ resp.status = StatusOK
    /\ ~resp.found => store = resp.before
    /\ resp.key \notin DOMAIN store
    /\ DOMAIN store = DOMAIN resp.before \ {resp.key}
    /\ \A j \in DOMAIN store : store[j] = resp.before[j]
    /\ DeleteItem(store, resp.key) = store

C8_Witness ==
  /\ resp.op = "DeleteRedirect" /\ ~resp.err /\ ~resp.found
  /\ resp.status = StatusOK
  /\ resp.before # << >>

\* C9: no step lowers the access_count stored for a key while its record
\* exists.
C9_AccessCountMonotonic ==
  [][\A k \in GenKeys :
       (k \in DOMAIN store /\ k \in DOMAIN store')
         => store'[k].access_count >= store[k].access_count]_vars

\* C10: every record of the table was written by a Put and has a non-empty
\* redirect_url; a Redirect overtaken by a delete re-creates nothing.
C10_EveryRecordHasUrl ==
  \A k \in DOMAIN store : HasUrl(store[k]) /\ store[k].redirect_url # EmptyStr

====
